---- MODULE Spec2Model ----
(***************************************************************************)
(* simple-tilemap: tileset addressing (src/src/tileset.rs), the tile grid  *)
(* and its render pass (src/src/tilemap.rs).                               *)
(*                                                                         *)
(* The crate is a library: a behaviour is a sequence of calls a client     *)
(* makes.  Every call is one action; its arguments are drawn with \E and   *)
(* recorded, with the value returned, in the variable that holds the last  *)
(* call.  A call that panics is the outcome "panic".                       *)
(***************************************************************************)
EXTENDS Integers, Naturals, Sequences, FiniteSets, TLC

VARIABLES
    build,      \* "debug" (overflow checks on) or "release" (u32 wraps)
    tileset,    \* what Tileset::new returned: status none | None | Some | panic
    newArgs,    \* the arguments of that Tileset::new call
    posCall,    \* the last get_tile_pos call: id and result
    map,        \* the Tilemap: width, height, tiles
    mapCall,    \* the last grid-accessor call, with the tiles before it
    surface,    \* the destination buffer of render
    renderCall, \* the last render call: outcome and the pixel pairs visited
    pixelCall   \* the last run of render's per-pixel closure on one pair

vars == <<build, tileset, newArgs, posCall, map, mapCall, surface, renderCall, pixelCall>>

----------------------------------------------------------------------------
(* Bounds of the model. *)

\* u32 arithmetic wraps modulo 2^32 in the code; TLC's integers are 32-bit
\* signed, so the model wraps modulo U32Mod, far above every input drawn.
U32Mod == 65536

MaxDim == 3
MaxTile == 2
MaxId == 5
MaxMapDim == 2

Builds == {"debug", "release"}

----------------------------------------------------------------------------
(* u32 arithmetic.  A step is its wrapped value; Fits says whether the      *)
(* exact value was representable (a debug build panics when it is not).    *)

Wrap(n) == n % U32Mod

Fits(n) == n >= 0 /\ n < U32Mod

Panic == [panic |-> TRUE, v |-> <<0, 0>>]

Ok(pair) == [panic |-> FALSE, v |-> pair]

----------------------------------------------------------------------------
(* TilesetOptions and Tileset (tileset.rs). *)

TilesetOptions_new(tw, th) ==
    [tile_size |-> <<tw, th>>, offset |-> <<0, 0>>, margin |-> <<0, 0>>,
     key_color |-> <<>>]

with_offset(o, ox, oy) == [o EXCEPT !.offset = <<ox, oy>>]

with_margin(o, mx, my) == [o EXCEPT !.margin = <<mx, my>>]

with_key_color(o, c) == [o EXCEPT !.key_color = <<c>>]

\* size_of::<C>() of the container type C on a 64-bit target: Vec<u8> is
\* three words, &[u8] is a fat pointer, [u8; N] is its N bytes.
SizeOfContainer(data) ==
    CASE data.container = "Vec" -> 24
      [] data.container = "Slice" -> 16
      [] data.container = "Array" -> data.len

\* One axis of calc_tile_counts:
\*   (extent - offset + margin) / (tile_size + margin)
TileCountAxis(b, extent, off, mar, ts) ==
    LET d1 == extent - off
        d2 == Wrap(d1) + mar
        dv == ts + mar
        ovf == ~Fits(d1) \/ ~Fits(d2) \/ ~Fits(dv)
    IN  IF (b = "debug" /\ ovf) \/ Wrap(dv) = 0
        THEN [panic |-> TRUE, v |-> 0]
        ELSE [panic |-> FALSE, v |-> Wrap(d2) \div Wrap(dv)]

calc_tile_counts(b, width, height, opts) ==
    LET cx == TileCountAxis(b, width, opts.offset[1], opts.margin[1], opts.tile_size[1])
        cy == TileCountAxis(b, height, opts.offset[2], opts.margin[2], opts.tile_size[2])
    IN  IF cx.panic \/ cy.panic THEN Panic ELSE Ok(<<cx.v, cy.v>>)

NoTileset ==
    [status |-> "none", data |-> [container |-> "Vec", len |-> 0, pat |-> 0],
     width |-> 0, height |-> 0, tile_counts |-> <<0, 0>>,
     opts |-> TilesetOptions_new(0, 0)]

\* Tileset::new: the length test, then calc_tile_counts.
Tileset_new(b, data, width, height, opts) ==
    LET area == width * height
        want == Wrap(area) * SizeOfContainer(data)
        tc == calc_tile_counts(b, width, height, opts)
    IN  IF b = "debug" /\ ~Fits(area)
        THEN [NoTileset EXCEPT !.status = "panic"]
        ELSE IF data.len = want
        THEN IF tc.panic
             THEN [NoTileset EXCEPT !.status = "panic"]
             ELSE [status |-> "Some", data |-> data, width |-> width,
                   height |-> height, tile_counts |-> tc.v, opts |-> opts]
        ELSE [NoTileset EXCEPT !.status = "None"]

tile_count(t) == Wrap(t.tile_counts[1] * t.tile_counts[2])

contains(t, id) == id < tile_count(t)

\* One axis of get_tile_pos: the coordinate idx * (tile_size + margin) + offset
\* and the end of the tile, coordinate + tile_size, with the overflow of each.
TilePosAxis(idx, ts, mar, off) ==
    LET s == ts + mar
        p == idx * Wrap(s)
        c == Wrap(p) + off
        e == Wrap(c) + ts
    IN  [covf |-> ~Fits(s) \/ ~Fits(p) \/ ~Fits(c), c |-> Wrap(c),
         eovf |-> ~Fits(e), e |-> Wrap(e)]

NonePos == [kind |-> "None", v |-> <<0, 0>>]

PanicPos == [kind |-> "panic", v |-> <<0, 0>>]

SomePos(x, y) == [kind |-> "Some", v |-> <<x, y>>]

\* get_tile_pos with the bound test as <=: a tile flush with the edge passes.
get_tile_pos_flush(b, t, id) ==
    IF t.tile_counts[1] = 0
    THEN PanicPos
    ELSE LET ax == TilePosAxis(id % t.tile_counts[1], t.opts.tile_size[1],
                               t.opts.margin[1], t.opts.offset[1])
             ay == TilePosAxis(id \div t.tile_counts[1], t.opts.tile_size[2],
                               t.opts.margin[2], t.opts.offset[2])
         IN  IF b = "debug" /\ (ax.covf \/ ay.covf \/ ax.eovf \/ ay.eovf)
             THEN PanicPos
             ELSE IF ax.e <= t.width /\ ay.e <= t.height
             THEN SomePos(ax.c, ay.c)
             ELSE NonePos

get_tile_pos(b, t, id) ==
    IF t.tile_counts[1] = 0
    THEN PanicPos  \* id % 0 and id / 0 panic in every build
    ELSE LET ax == TilePosAxis(id % t.tile_counts[1], t.opts.tile_size[1],
                               t.opts.margin[1], t.opts.offset[1])
             ay == TilePosAxis(id \div t.tile_counts[1], t.opts.tile_size[2],
                               t.opts.margin[2], t.opts.offset[2])
             dbg == b = "debug"
         IN  CASE dbg /\ (ax.covf \/ ay.covf \/ ax.eovf) -> PanicPos
               [] ~(dbg /\ (ax.covf \/ ay.covf \/ ax.eovf)) /\ ~(ax.e < t.width) -> NonePos
               [] OTHER -> IF dbg /\ ay.eovf THEN PanicPos
                           ELSE IF ay.e < t.height THEN SomePos(ax.c, ay.c)
                           ELSE NonePos

----------------------------------------------------------------------------
(* Color, BlitOptions, Tile and Tilemap (tilemap.rs). *)

\* rgb::RGBA8 as <<r, g, b, a>>; its derived Default is all zero.
Color_new(r, g, b, a) == <<r, g, b, a>>

Color_default == Color_new(0, 0, 0, 0)

BlitOptions == {"None", "FlipHorizontal", "FlipVertical"}

\* #[derive(Default)] on Tile: the default of every field.
Tile_default == [id |-> 0, color |-> Color_default, opts |-> "None", user_data |-> 0]

Tile_new(id) ==
    [id |-> id, color |-> Color_new(255, 255, 255, 255), opts |-> "None",
     user_data |-> 0]

with_color(t, c) == [t EXCEPT !.color = c]

with_user_data(t, u) == [t EXCEPT !.user_data = u]

with_blit_options(t, o) == [t EXCEPT !.opts = o]

NoMap == [status |-> "none", width |-> 0, height |-> 0, tiles |-> <<>>]

\* Tilemap::new: vec![Tile::default(); (width * height) as usize]
Tilemap_new(b, width, height) ==
    LET n == width * height
    IN  IF b = "debug" /\ ~Fits(n)
        THEN [NoMap EXCEPT !.status = "panic"]
        ELSE [status |-> "ok", width |-> width, height |-> height,
              tiles |-> [i \in 1..Wrap(n) |-> Tile_default]]

\* (y * self.width + x) as usize, the index every accessor computes.
TileIndex(b, m, x, y) ==
    LET p == y * m.width
        i == Wrap(p) + x
    IN  [panic |-> b = "debug" /\ (~Fits(p) \/ ~Fits(i)), v |-> Wrap(i)]

NoneTile == [kind |-> "None", idx |-> 0, tile |-> Tile_default]

PanicTile == [kind |-> "panic", idx |-> 0, tile |-> Tile_default]

\* self.tiles.get(index): Some exactly when index < tiles.len().
get_tile(b, m, x, y) ==
    LET i == TileIndex(b, m, x, y)
    IN  IF i.panic THEN PanicTile
        ELSE IF i.v < Len(m.tiles)
        THEN [kind |-> "Some", idx |-> i.v, tile |-> m.tiles[i.v + 1]]
        ELSE NoneTile

\* self.tiles.get_mut(index): the same slot, borrowed mutably.
get_mut_tile(b, m, x, y) ==
    LET i == TileIndex(b, m, x, y)
    IN  IF i.panic THEN PanicTile
        ELSE IF i.v < Len(m.tiles)
        THEN [kind |-> "Some", idx |-> i.v, tile |-> m.tiles[i.v + 1]]
        ELSE NoneTile

\* set_tile with the index computed as x * width + y.
set_tile_transposed(b, m, x, y, tile) ==
    LET i == TileIndex(b, m, y, x)
    IN  IF i.panic THEN [m EXCEPT !.status = "panic"]
        ELSE IF i.v < Len(m.tiles)
        THEN [m EXCEPT !.tiles[i.v + 1] = tile]
        ELSE m

\* set_tile: if let Some(t) = self.tiles.get_mut(index) { *t = tile }
set_tile(b, m, x, y, tile) ==
    LET i == TileIndex(b, m, x, y)
    IN  IF i.panic THEN [m EXCEPT !.status = "panic"]
        ELSE IF i.v < Len(m.tiles)
        THEN [m EXCEPT !.tiles[i.v + 1] = tile]
        ELSE m

\* Buffer<Tile>::get: self.tiles.index(index), which panics out of range.
Tilemap_get(b, m, x, y) ==
    LET i == TileIndex(b, m, x, y)
    IN  IF i.panic \/ ~(i.v < Len(m.tiles)) THEN PanicTile
        ELSE [kind |-> "Some", idx |-> i.v, tile |-> m.tiles[i.v + 1]]

----------------------------------------------------------------------------
(* The colour conversions render calls (fast_srgb8), in fixed point: a     *)
(* linear value is a multiple of 1/LinearOne.  srgb8_to_f32 is a table     *)
(* lookup; f32_to_srgb8 rounds to the nearest 8-bit code, that is, to the  *)
(* largest code whose lower rounding threshold the value reaches.          *)

SRGB8_TO_LINEAR ==
    <<0, 10, 20, 30, 40, 50, 60, 70, 80, 90, 99, 110,
      120, 132, 144, 157, 170, 184, 198, 213, 229, 246, 263, 281,
      299, 319, 338, 359, 381, 403, 425, 449, 473, 498, 524, 551,
      578, 606, 635, 665, 695, 727, 759, 792, 825, 860, 895, 931,
      969, 1006, 1045, 1085, 1125, 1167, 1209, 1252, 1296, 1341, 1386, 1433,
      1481, 1529, 1578, 1629, 1680, 1732, 1785, 1839, 1894, 1950, 2007, 2065,
      2123, 2183, 2244, 2306, 2368, 2432, 2496, 2562, 2629, 2696, 2765, 2834,
      2905, 2977, 3049, 3123, 3198, 3273, 3350, 3428, 3507, 3587, 3668, 3750,
      3833, 3917, 4002, 4089, 4176, 4264, 4354, 4444, 4536, 4629, 4723, 4818,
      4914, 5011, 5109, 5209, 5309, 5411, 5514, 5618, 5723, 5829, 5936, 6045,
      6155, 6265, 6377, 6490, 6605, 6720, 6837, 6954, 7073, 7193, 7315, 7437,
      7561, 7686, 7812, 7939, 8068, 8197, 8328, 8460, 8593, 8728, 8864, 9001,
      9139, 9278, 9419, 9561, 9704, 9848, 9994, 10141, 10289, 10438, 10589, 10741,
      10894, 11048, 11204, 11361, 11519, 11679, 11839, 12001, 12165, 12329, 12495, 12663,
      12831, 13001, 13172, 13344, 13518, 13693, 13870, 14047, 14226, 14407, 14588, 14771,
      14956, 15141, 15328, 15517, 15706, 15897, 16090, 16284, 16479, 16675, 16873, 17072,
      17273, 17474, 17678, 17882, 18088, 18296, 18504, 18715, 18926, 19139, 19353, 19569,
      19786, 20005, 20225, 20446, 20669, 20893, 21118, 21345, 21574, 21803, 22035, 22267,
      22501, 22737, 22974, 23212, 23452, 23693, 23936, 24180, 24425, 24672, 24921, 25171,
      25422, 25675, 25929, 26185, 26442, 26701, 26961, 27223, 27486, 27750, 28016, 28284,
      28553, 28823, 29095, 29369, 29644, 29920, 30198, 30478, 30759, 31041, 31325, 31611,
      31898, 32186, 32476, 32768>>

LINEAR_TO_SRGB8_THRESHOLD ==
    <<0, 5, 15, 25, 35, 45, 55, 65, 75, 85, 95, 105,
      115, 127, 138, 151, 164, 177, 191, 206, 222, 238, 255, 272,
      290, 309, 329, 349, 370, 392, 414, 438, 462, 486, 512, 538,
      565, 593, 621, 650, 680, 711, 743, 776, 809, 843, 878, 914,
      950, 988, 1026, 1065, 1105, 1146, 1188, 1231, 1274, 1319, 1364, 1410,
      1457, 1505, 1554, 1604, 1655, 1706, 1759, 1813, 1867, 1922, 1979, 2036,
      2094, 2154, 2214, 2275, 2337, 2400, 2465, 2530, 2596, 2663, 2731, 2800,
      2870, 2941, 3013, 3087, 3161, 3236, 3312, 3390, 3468, 3547, 3628, 3709,
      3792, 3875, 3960, 4046, 4133, 4220, 4309, 4399, 4491, 4583, 4676, 4771,
      4866, 4963, 5061, 5159, 5259, 5361, 5463, 5566, 5671, 5776, 5883, 5991,
      6100, 6210, 6322, 6434, 6548, 6663, 6779, 6896, 7014, 7134, 7254, 7376,
      7499, 7624, 7749, 7876, 8004, 8133, 8263, 8394, 8527, 8661, 8796, 8932,
      9070, 9209, 9349, 9490, 9633, 9776, 9921, 10068, 10215, 10364, 10514, 10665,
      10818, 10971, 11126, 11283, 11440, 11599, 11759, 11921, 12083, 12247, 12413, 12579,
      12747, 12916, 13087, 13259, 13432, 13606, 13782, 13959, 14137, 14317, 14498, 14680,
      14864, 15049, 15235, 15423, 15612, 15802, 15994, 16187, 16381, 16577, 16774, 16973,
      17173, 17374, 17576, 17780, 17986, 18192, 18400, 18610, 18821, 19033, 19247, 19462,
      19678, 19896, 20115, 20336, 20558, 20781, 21006, 21232, 21460, 21689, 21919, 22151,
      22385, 22619, 22856, 23093, 23332, 23573, 23815, 24058, 24303, 24549, 24797, 25046,
      25297, 25549, 25802, 26057, 26314, 26572, 26831, 27092, 27355, 27618, 27884, 28150,
      28419, 28689, 28960, 29233, 29507, 29782, 30060, 30338, 30619, 30900, 31184, 31468,
      31755, 32042, 32332, 32623>>

LinearOne == SRGB8_TO_LINEAR[256]

srgb8_to_f32(c) == SRGB8_TO_LINEAR[c + 1]

\* The largest code in lo..hi whose threshold p reaches (the table ascends).
RECURSIVE NearestCode(_, _, _)
NearestCode(lo, hi, p) ==
    IF lo = hi THEN lo
    ELSE LET mid == (lo + hi + 1) \div 2
         IN  IF LINEAR_TO_SRGB8_THRESHOLD[mid + 1] <= p
             THEN NearestCode(mid, hi, p)
             ELSE NearestCode(lo, mid - 1, p)

f32_to_srgb8(p) == NearestCode(0, 255, p)

\* The f32 product of two linear values, rounded to nearest.
LinearMul(p, q) == (p * q + LinearOne \div 2) \div LinearOne

\* The tint as a product of the 8-bit codes, scaled back by a shift.
TintChannel_bytes(s, t) == (s * t) \div 256

\* One channel of the closure: srgb8_to_f32(src.c) * srgb8_to_f32(color.c),
\* then back to sRGB.
TintChannel(s, t) == f32_to_srgb8(LinearMul(srgb8_to_f32(s), srgb8_to_f32(t)))

f32x4_to_srgb8(src, color) ==
    Color_new(TintChannel(src[1], color[1]), TintChannel(src[2], color[2]),
              TintChannel(src[3], color[3]), TintChannel(src[4], color[4]))

\* The key test on the colour channels alone, alpha ignored.
DiffersFromKey_rgb(src, key) ==
    key = <<>> \/ <<src[1], src[2], src[3]>> # <<key[1][1], key[1][2], key[1][3]>>

\* Some(*src) != key_color; key_color is <<>> (None) or <<c>> (Some(c)).
DiffersFromKey(src, key) == <<src>> # key

\* The closure render hands to blit_with: the value of *dest after it ran.
PixelClosure(dest, src, color, key) ==
    IF DiffersFromKey(src, key) THEN f32x4_to_srgb8(src, color) ELSE dest

----------------------------------------------------------------------------
(* Pixel storage of the atlas and of the destination buffer. *)

KeyColor == Color_new(255, 0, 255, 255)

Sentinel == Color_new(1, 2, 3, 4)

\* The colours atlas data is made of; data.pat rotates them.
Palette ==
    <<Color_new(200, 100, 50, 255), KeyColor, Color_new(0, 0, 0, 255),
      Color_new(255, 0, 255, 0), Color_new(255, 255, 255, 255),
      Color_new(10, 20, 30, 40), Color_new(128, 64, 32, 16)>>

AtlasPixel(data, i) == Palette[((i + data.pat) % Len(Palette)) + 1]

\* Buffer<Color>::get of Tileset: data.as_pixels().index(y * width + x);
\* as_pixels drops the bytes left over after the last whole pixel.
Tileset_get(b, t, x, y) ==
    LET p == y * t.width
        i == Wrap(p) + x
    IN  IF (b = "debug" /\ (~Fits(p) \/ ~Fits(i))) \/ ~(Wrap(i) < t.data.len \div 4)
        THEN [panic |-> TRUE, v |-> Color_default]
        ELSE [panic |-> FALSE, v |-> AtlasPixel(t.data, Wrap(i))]

\* A destination buffer of the client, every pixel the sentinel.
FilledSurface(w, h) ==
    [width |-> w, height |-> h, px |-> [i \in 1..(w * h) |-> Sentinel],
     written |-> {}]

SurfaceIndex(surf, d) == d[2] * surf.width + d[1] + 1

----------------------------------------------------------------------------
(* The render pass (tilemap.rs) and the blit service it calls. *)

\* The pixel pairs blit_with visits: the size rectangle at dest_pos and at
\* src_pos, clipped to both buffers; a flip mirrors the source rectangle.
BlitPairs(surf, dpos, t, spos, size, opts) ==
    LET all == {[d |-> <<dpos[1] + ix, dpos[2] + iy>>,
                 s |-> <<spos[1] + (IF opts = "FlipHorizontal" THEN size[1] - 1 - ix ELSE ix),
                         spos[2] + (IF opts = "FlipVertical" THEN size[2] - 1 - iy ELSE iy)>>] :
                    ix \in 0..(size[1] - 1), iy \in 0..(size[2] - 1)}
    IN  {pr \in all : /\ pr.d[1] >= 0 /\ pr.d[1] < surf.width
                      /\ pr.d[2] >= 0 /\ pr.d[2] < surf.height
                      /\ pr.s[1] >= 0 /\ pr.s[1] < t.width
                      /\ pr.s[2] >= 0 /\ pr.s[2] < t.height}

\* blit_with(surface, (offset_x, offset_y), &self.tileset, (x, y), tile_size,
\*           opts, closure): where tile (tx, ty) of the map lands.
BlitDestPos(t, tx, ty, ox, oy) == <<ox, oy>>

\* One blit_with call of render: the closure runs on every pair visited.
BlitTile(b, t, surf, dpos, spos, opts, color) ==
    LET pairs == BlitPairs(surf, dpos, t, spos, t.opts.tile_size, opts)
        src(pr) == Tileset_get(b, t, pr.s[1], pr.s[2])
        at(i) == CHOOSE pr \in pairs : SurfaceIndex(surf, pr.d) = i
        hit == {SurfaceIndex(surf, pr.d) : pr \in pairs}
    IN  IF \E pr \in pairs : src(pr).panic
        THEN [panic |-> TRUE, surf |-> surf, pairs |-> pairs]
        ELSE [panic |-> FALSE,
              surf |-> [surf EXCEPT
                  !.px = [i \in 1..Len(surf.px) |->
                             IF i \in hit
                             THEN PixelClosure(surf.px[i], src(at(i)).v, color, t.opts.key_color)
                             ELSE surf.px[i]],
                  !.written = @ \cup {SurfaceIndex(surf, pr.d) :
                        pr \in {q \in pairs : DiffersFromKey(src(q).v, t.opts.key_color)}}],
              pairs |-> pairs]

\* The loops of render from cell k on (k = ty * width + tx); acc holds the
\* surface, the outcome and, per cell visited, what was done for it.
RECURSIVE RenderFrom(_, _, _, _, _, _, _)
RenderFrom(b, t, m, ox, oy, k, acc) ==
    IF k >= m.width * m.height
    THEN acc
    ELSE LET tx == k % m.width
             ty == k \div m.width
             cell == Tilemap_get(b, m, tx, ty)
             pos == IF cell.kind = "panic" THEN PanicPos
                    ELSE get_tile_pos(b, t, cell.tile.id)
             bl == BlitTile(b, t, acc.surf, BlitDestPos(t, tx, ty, ox, oy), pos.v,
                            cell.tile.opts, cell.tile.color)
             entry(pairs) == [tx |-> tx, ty |-> ty, pos |-> pos.kind, pairs |-> pairs]
         IN  CASE pos.kind = "panic" ->
                    [acc EXCEPT !.outcome = "panic", !.log = Append(@, entry({}))]
               [] pos.kind = "None" ->
                    RenderFrom(b, t, m, ox, oy, k + 1,
                               [acc EXCEPT !.log = Append(@, entry({}))])
               [] pos.kind = "Some" ->
                    IF bl.panic
                    THEN [acc EXCEPT !.outcome = "panic", !.log = Append(@, entry(bl.pairs))]
                    ELSE RenderFrom(b, t, m, ox, oy, k + 1,
                                    [acc EXCEPT !.surf = bl.surf,
                                                !.log = Append(@, entry(bl.pairs))])

render(b, t, m, surf, ox, oy) ==
    RenderFrom(b, t, m, ox, oy, 0, [surf |-> surf, outcome |-> "ok", log |-> <<>>])

----------------------------------------------------------------------------
(* The state before any call. *)

NoArgs == [data |-> NoTileset.data, width |-> 0, height |-> 0, opts |-> NoTileset.opts]

NoPosCall == [done |-> FALSE, id |-> 0, result |-> NonePos]

NoMapCall ==
    [op |-> "none", x |-> 0, y |-> 0, tile |-> Tile_default, before |-> <<>>,
     result |-> NoneTile]

NoSurface == FilledSurface(0, 0)

NoRender == [done |-> FALSE, outcome |-> "ok", ox |-> 0, oy |-> 0, log |-> <<>>]

NoPixelCall ==
    [done |-> FALSE, src |-> Color_default, color |-> Color_default, key |-> <<>>,
     dest |-> Sentinel]

----------------------------------------------------------------------------
(* Tileset construction and addressing: Tileset::new, then get_tile_pos.   *)

Dims == 0..MaxDim \cup {8}

TileSizes == 0..MaxTile \cup {4}

Offsets == {0, 1}

Margins == {0, 1}

Containers == {"Vec", "Slice", "Array"}

\* Byte lengths a client may pass for a width x height image.
Lens(w, h) == {0, w * h * 4, w * h * 4 + 1, w * h * 16, w * h * 24}

Layouts ==
    {with_margin(with_offset(TilesetOptions_new(tw, th), ox, oy), mx, my) :
        tw \in TileSizes, th \in TileSizes, ox \in Offsets, oy \in Offsets,
        mx \in Margins, my \in Margins}

InitTileset ==
    /\ build \in Builds
    /\ tileset = NoTileset
    /\ newArgs = NoArgs
    /\ posCall = NoPosCall
    /\ map = NoMap
    /\ mapCall = NoMapCall
    /\ surface = NoSurface
    /\ renderCall = NoRender
    /\ pixelCall = NoPixelCall

CallTilesetNew ==
    /\ tileset.status = "none"
    /\ \E c \in Containers, w \in Dims, h \in Dims, o \in Layouts :
         \E n \in Lens(w, h) :
            LET data == [container |-> c, len |-> n, pat |-> 0]
            IN  /\ newArgs' = [data |-> data, width |-> w, height |-> h, opts |-> o]
                /\ tileset' = Tileset_new(build, data, w, h, o)
    /\ UNCHANGED <<build, posCall, map, mapCall, surface, renderCall, pixelCall>>

CallGetTilePos ==
    /\ tileset.status = "Some"
    /\ \E id \in 0..MaxId :
         posCall' = [done |-> TRUE, id |-> id, result |-> get_tile_pos(build, tileset, id)]
    /\ UNCHANGED <<build, tileset, newArgs, map, mapCall, surface, renderCall, pixelCall>>

NextTileset == CallTilesetNew \/ CallGetTilePos

SpecTileset == InitTileset /\ [][NextTileset]_vars

----------------------------------------------------------------------------
(* The tile grid: Tilemap::new, then get_tile, get_mut_tile and set_tile.  *)

VecData(w, h) == [container |-> "Vec", len |-> w * h * 24, pat |-> 0]

\* The tileset the grid owns; the accessors never read it.
GridTileset(b) == Tileset_new(b, VecData(2, 2), 2, 2, TilesetOptions_new(1, 1))

Grey == Color_new(128, 128, 128, 255)

TintedTile ==
    with_user_data(with_blit_options(with_color(Tile_new(1), Grey), "FlipHorizontal"), 1)

GridTiles == {Tile_default, TintedTile}

InitMap ==
    /\ build \in Builds
    /\ tileset = GridTileset(build)
    /\ newArgs = [data |-> VecData(2, 2), width |-> 2, height |-> 2,
                  opts |-> TilesetOptions_new(1, 1)]
    /\ posCall = NoPosCall
    /\ \E w \in 0..MaxMapDim, h \in 0..MaxMapDim : map = Tilemap_new(build, w, h)
    /\ mapCall = [NoMapCall EXCEPT !.op = "new"]
    /\ surface = NoSurface
    /\ renderCall = NoRender
    /\ pixelCall = NoPixelCall

CallGetTile ==
    /\ \E x \in 0..MaxMapDim, y \in 0..MaxMapDim :
         mapCall' = [op |-> "get_tile", x |-> x, y |-> y, tile |-> Tile_default,
                     before |-> map.tiles, result |-> get_tile(build, map, x, y)]
    /\ UNCHANGED <<build, tileset, newArgs, posCall, map, surface, renderCall, pixelCall>>

CallGetMutTile ==
    /\ \E x \in 0..MaxMapDim, y \in 0..MaxMapDim :
         mapCall' = [op |-> "get_mut_tile", x |-> x, y |-> y, tile |-> Tile_default,
                     before |-> map.tiles, result |-> get_mut_tile(build, map, x, y)]
    /\ UNCHANGED <<build, tileset, newArgs, posCall, map, surface, renderCall, pixelCall>>

CallSetTile ==
    /\ \E x \in 0..MaxMapDim, y \in 0..MaxMapDim, tile \in GridTiles :
         /\ map' = set_tile(build, map, x, y, tile)
         /\ mapCall' = [op |-> "set_tile", x |-> x, y |-> y, tile |-> tile,
                        before |-> map.tiles, result |-> NoneTile]
    /\ UNCHANGED <<build, tileset, newArgs, posCall, surface, renderCall, pixelCall>>

NextMap == CallGetTile \/ CallGetMutTile \/ CallSetTile

SpecMap == InitMap /\ [][NextMap]_vars

----------------------------------------------------------------------------
(* The render pass: a client fills the grid, then renders it once onto a   *)
(* buffer pre-filled with the sentinel.                                    *)

AtlasDims == {<<3, 3>>, <<2, 2>>}

RenderLayouts ==
    {TilesetOptions_new(1, 1),
     with_key_color(TilesetOptions_new(1, 1), KeyColor),
     with_key_color(TilesetOptions_new(2, 1), KeyColor),
     TilesetOptions_new(3, 3)}

RenderMapDims == {<<2, 2>>, <<2, 1>>}

RenderOffsets == {-1, 0, 1}

\* No atlas drawn here has a rectangle for id 7.
UnresolvableTile == Tile_new(7)

RenderTiles == {Tile_new(0), UnresolvableTile, TintedTile}

InitRender ==
    /\ build \in Builds
    /\ \E d \in AtlasDims, o \in RenderLayouts :
         /\ newArgs = [data |-> VecData(d[1], d[2]), width |-> d[1], height |-> d[2],
                       opts |-> o]
         /\ tileset = Tileset_new(build, VecData(d[1], d[2]), d[1], d[2], o)
    /\ tileset.status = "Some"
    /\ posCall = NoPosCall
    /\ \E md \in RenderMapDims :
         /\ map = Tilemap_new(build, md[1], md[2])
         /\ surface = FilledSurface(md[1] * tileset.opts.tile_size[1],
                                    md[2] * tileset.opts.tile_size[2])
    /\ mapCall = [NoMapCall EXCEPT !.op = "new"]
    /\ renderCall = NoRender
    /\ pixelCall = NoPixelCall

PlaceTile ==
    /\ ~renderCall.done
    /\ \E x \in 0..(map.width - 1), y \in 0..(map.height - 1), tile \in RenderTiles :
         map' = set_tile(build, map, x, y, tile)
    /\ UNCHANGED <<build, tileset, newArgs, posCall, mapCall, surface, renderCall, pixelCall>>

CallRender ==
    /\ ~renderCall.done
    /\ \E ox \in RenderOffsets, oy \in RenderOffsets :
         LET r == render(build, tileset, map, surface, ox, oy)
         IN  /\ surface' = r.surf
             /\ renderCall' = [done |-> TRUE, outcome |-> r.outcome, ox |-> ox,
                               oy |-> oy, log |-> r.log]
    /\ UNCHANGED <<build, tileset, newArgs, posCall, map, mapCall, pixelCall>>

NextRender == PlaceTile \/ CallRender

SpecRender == InitRender /\ [][NextRender]_vars

----------------------------------------------------------------------------
(* The per-pixel closure of render on its own: one source pixel, one tint, *)
(* one key colour, and a destination pixel holding the sentinel.           *)

SrcPixels == {Color_new(c, (c + 85) % 256, (c + 170) % 256, 255 - c) : c \in 0..255}

Tints ==
    {Color_new(255, 255, 255, 255), Color_default, Grey, Color_new(0, 0, 0, 255),
     Color_new(255, 128, 0, 255)}

InitPixel ==
    /\ build \in Builds
    /\ tileset = NoTileset
    /\ newArgs = NoArgs
    /\ posCall = NoPosCall
    /\ map = NoMap
    /\ mapCall = NoMapCall
    /\ surface = NoSurface
    /\ renderCall = NoRender
    /\ pixelCall = NoPixelCall

RunPixelClosure ==
    /\ ~pixelCall.done
    /\ \E src \in SrcPixels, color \in Tints :
         \E key \in {<<>>, <<KeyColor>>, <<src>>} :
            pixelCall' = [done |-> TRUE, src |-> src, color |-> color, key |-> key,
                          dest |-> PixelClosure(Sentinel, src, color, key)]
    /\ UNCHANGED <<build, tileset, newArgs, posCall, map, mapCall, surface, renderCall>>

NextPixel == RunPixelClosure

SpecPixel == InitPixel /\ [][NextPixel]_vars

----------------------------------------------------------------------------
(* Claims about Tileset::new and get_tile_pos, under SpecTileset. *)

\* C1: Tileset::new returns a tileset exactly when the byte length of data
\* equals width*height*4, and None for every other length, whatever the
\* container type of data is.  (Stated of the calls that return.)
C1_NewExactlyWhenLenIsRGBA8 ==
    tileset.status \in {"Some", "None"} =>
        IF newArgs.data.len = newArgs.width * newArgs.height * 4
        THEN tileset.status = "Some"
        ELSE tileset.status = "None"

ZeroLayoutTiling(t) ==
    /\ t.opts.offset = <<0, 0>>
    /\ t.opts.margin = <<0, 0>>
    /\ t.opts.tile_size[1] > 0
    /\ t.opts.tile_size[2] > 0
    /\ t.width % t.opts.tile_size[1] = 0
    /\ t.height % t.opts.tile_size[2] = 0

\* C3: under zero offset and margin and a tile size that divides the image,
\* get_tile_pos(id) is Some((x, y)) for every id < tile_count(), and the
\* rectangle [x, x+tile_size.x) x [y, y+tile_size.y) lies inside the image.
C3_EveryCountedIdHasRect ==
    (posCall.done /\ ZeroLayoutTiling(tileset) /\ contains(tileset, posCall.id)) =>
        /\ posCall.result.kind = "Some"
        /\ posCall.result.v[1] + tileset.opts.tile_size[1] <= tileset.width
        /\ posCall.result.v[2] + tileset.opts.tile_size[2] <= tileset.height

\* What C4 says get_tile_pos(id) returns, in exact (unwrapped) arithmetic.
C4_Expected(t, id) ==
    LET x == (id % t.tile_counts[1]) * (t.opts.tile_size[1] + t.opts.margin[1])
                 + t.opts.offset[1]
        y == (id \div t.tile_counts[1]) * (t.opts.tile_size[2] + t.opts.margin[2])
                 + t.opts.offset[2]
    IN  IF x + t.opts.tile_size[1] < t.width /\ y + t.opts.tile_size[2] < t.height
        THEN SomePos(x, y)
        ELSE NonePos

Atlas8x8Tiles4x4(t) ==
    /\ t.status = "Some"
    /\ t.width = 8
    /\ t.height = 8
    /\ t.opts.tile_size = <<4, 4>>
    /\ t.opts.offset = <<0, 0>>
    /\ t.opts.margin = <<0, 0>>

----------------------------------------------------------------------------
(* Claims about the grid accessors, under SpecMap. *)

OutOfBounds(x, y) == x >= map.width \/ y >= map.height

\* C5: for every (x, y) with x >= width or y >= height, get_tile and
\* get_mut_tile return None and set_tile leaves every cell unchanged, in
\* every state set_tile calls can reach.
C5_OutOfBoundsIsNoneOrNoOp ==
    OutOfBounds(mapCall.x, mapCall.y) =>
        /\ mapCall.op \in {"get_tile", "get_mut_tile"} => mapCall.result.kind = "None"
        /\ mapCall.op = "set_tile" => map.tiles = mapCall.before

WhiteTile ==
    [id |-> 0, color |-> Color_new(255, 255, 255, 255), opts |-> "None",
     user_data |-> 0]

\* C7: the default tile, and so every cell of a map fresh from Tilemap::new,
\* has id 0, tint opaque white, no blit flags and default user data.
C7_FreshCellsAreWhite ==
    mapCall.op = "new" => \A i \in 1..Len(map.tiles) : map.tiles[i] = WhiteTile

\* C8: for every in-bounds (x, y) and tile T, after set_tile(x, y, T)
\* get_tile(x, y) is Some(T) and every other cell, width, height and the
\* number of tiles (width*height) are unchanged, after any sequence of
\* set_tile calls.
C8_SetTileWritesOneCell ==
    /\ map.status = "ok"
    /\ Len(map.tiles) = map.width * map.height
    /\ (mapCall.op = "set_tile" /\ ~OutOfBounds(mapCall.x, mapCall.y)) =>
           /\ get_tile(build, map, mapCall.x, mapCall.y).kind = "Some"
           /\ get_tile(build, map, mapCall.x, mapCall.y).tile = mapCall.tile
           /\ Len(mapCall.before) = Len(map.tiles)
           /\ \A x \in 0..(map.width - 1), y \in 0..(map.height - 1) :
                  <<x, y>> # <<mapCall.x, mapCall.y>> =>
                      get_tile(build, map, x, y).tile = mapCall.before[y * map.width + x + 1]

C8_Witness ==
    /\ mapCall.op = "set_tile"
    /\ ~OutOfBounds(mapCall.x, mapCall.y)
    /\ mapCall.tile = TintedTile
    /\ mapCall.before[mapCall.y * map.width + mapCall.x + 1] = Tile_default
    /\ \E i \in 1..Len(map.tiles) : i # mapCall.y * map.width + mapCall.x + 1
                                    /\ map.tiles[i] = TintedTile

----------------------------------------------------------------------------
(* Claims about the render pass, under SpecRender. *)

CellTile(x, y) == map.tiles[y * map.width + x + 1]

Resolves(id) == get_tile_pos(build, tileset, id).kind = "Some"

\* The 2x2 map of the scenario: only cell (1, 1) holds a resolvable id, with
\* a white tint.
OnlyCell11Drawable ==
    /\ map.width = 2
    /\ map.height = 2
    /\ Resolves(CellTile(1, 1).id)
    /\ CellTile(1, 1).color = Color_new(255, 255, 255, 255)
    /\ \A x \in 0..1, y \in 0..1 :
           <<x, y>> # <<1, 1>> => get_tile_pos(build, tileset, CellTile(x, y).id) = NonePos

\* Whether destination pixel (px, py) lies in the region of cell (tx, ty):
\* the render offset plus the cell's column and row scaled by the tile size.
InCellRegion(px, py, tx, ty) ==
    /\ px >= renderCall.ox + tx * tileset.opts.tile_size[1]
    /\ px < renderCall.ox + (tx + 1) * tileset.opts.tile_size[1]
    /\ py >= renderCall.oy + ty * tileset.opts.tile_size[2]
    /\ py < renderCall.oy + (ty + 1) * tileset.opts.tile_size[2]

\* C2: render places each drawable cell (tx, ty) at the offset plus its
\* column/row scaled by the tile size: with only cell (1, 1) of a 2x2 map
\* drawable, every destination pixel outside the region of cell (1, 1) still
\* holds the sentinel after render.
C2_OnlyRegion11Written ==
    (renderCall.done /\ OnlyCell11Drawable) =>
        \A px \in 0..(surface.width - 1), py \in 0..(surface.height - 1) :
            ~InCellRegion(px, py, 1, 1) =>
                surface.px[SurfaceIndex(surface, <<px, py>>)] = Sentinel

\* C6: for any tileset Tileset::new accepted, degenerate layouts included,
\* get_tile_pos returns Some or None for every id, and render raises no
\* panic and writes no pixel for a cell whose id has no valid rectangle.
C6_NoLoudFailure ==
    (tileset.status = "Some" /\ renderCall.done) =>
        /\ renderCall.outcome = "ok"
        /\ \A k \in 1..Len(renderCall.log) :
               /\ renderCall.log[k].pos \in {"Some", "None"}
               /\ renderCall.log[k].pos = "None" => renderCall.log[k].pairs = {}

\* The source pixel of a visited pair, read from the atlas data.
PairSrc(pr) == AtlasPixel(tileset.data, pr.s[2] * tileset.width + pr.s[1])

\* Exact equality with the configured key colour, channel by channel.
IsKeyPixel(c) ==
    /\ tileset.opts.key_color # <<>>
    /\ \A ch \in 1..4 : c[ch] = tileset.opts.key_color[1][ch]

\* The cells (log positions) whose blit visited destination index i with a
\* source pixel that is not the key colour.
WritingVisits(i) ==
    {k \in 1..Len(renderCall.log) :
        \E pr \in renderCall.log[k].pairs :
            SurfaceIndex(surface, pr.d) = i /\ ~IsKeyPixel(PairSrc(pr))}

\* C9: a destination pixel paired only with key-colour source pixels keeps
\* the sentinel, for every tint; a pair whose source pixel differs from the
\* key colour (any pair when no key colour is set) is written.
C9_KeyColourNeverWritten ==
    renderCall.done =>
        \A i \in 1..Len(surface.px) :
            IF WritingVisits(i) = {}
            THEN surface.px[i] = Sentinel /\ i \notin surface.written
            ELSE i \in surface.written

C9_Witness ==
    /\ renderCall.done
    /\ tileset.opts.key_color = <<KeyColor>>
    /\ \E k \in 1..Len(renderCall.log) : \E pr \in renderCall.log[k].pairs :
           /\ IsKeyPixel(PairSrc(pr))
           /\ WritingVisits(SurfaceIndex(surface, pr.d)) = {}
           /\ surface.px[SurfaceIndex(surface, pr.d)] = Sentinel
    /\ \E i \in 1..Len(surface.px) : i \in surface.written

----------------------------------------------------------------------------
(* Claims about the per-pixel closure, under SpecPixel. *)

\* C10: identity tint: for every source pixel (r, g, b, a) that is not the
\* key colour, tint (255, 255, 255, 255) writes exactly (r, g, b, a); what is
\* written is each channel taken from sRGB to linear, multiplied by the
\* linear tint channel and taken back to 8-bit sRGB.
C10_WhiteTintIsIdentity ==
    (pixelCall.done /\ <<pixelCall.src>> # pixelCall.key) =>
        /\ \A ch \in 1..4 :
               pixelCall.dest[ch] =
                   f32_to_srgb8(LinearMul(srgb8_to_f32(pixelCall.src[ch]),
                                          srgb8_to_f32(pixelCall.color[ch])))
        /\ pixelCall.color = Color_new(255, 255, 255, 255) =>
               pixelCall.dest = pixelCall.src

C10_Witness ==
    /\ pixelCall.done
    /\ pixelCall.color = Color_new(255, 255, 255, 255)
    /\ pixelCall.key = <<KeyColor>>
    /\ pixelCall.src = Color_new(200, 29, 114, 55)
    /\ pixelCall.dest = pixelCall.src

====
